---- MODULE Spec2Model ----
(***************************************************************************)
(* The resilient request-handling code of lifeos/server:                   *)
(*   - the response cache middleware of index.js (redis first, in-process  *)
(*     Map as fallback),                                                   *)
(*   - the failed-login lockout methods of models/User.js,                 *)
(*   - the POST /login handler of routes/auth.js.                          *)
(* Time is the value of Date.now(), counted in abstract ticks.             *)
(***************************************************************************)
EXTENDS Integers, Sequences, FiniteSets, Bags, TLC

\* ------------------------------------------------------------------ bounds
MaxTime == 3
MaxDuration == 2

\* The request limit of the throttle the specification describes, scaled down
\* (SECURITY.md documents 100 requests per window for the general API).
ThrottleLimit == 2

\* The urls requested (req.originalUrl); a key only indexes the two stores, so
\* requests for different urls do not meet.
Urls == {"/api/users"}

\* The requests that may be in flight at once.
ReqIds == {"r1", "r2"}

Durations == 0..MaxDuration

\* ------------------------------------------------------------------ values
\* JavaScript values that pass through the cache, as tagged records.
\* A handler's body is an object that carries Date fields (mockUsers,
\* mockProducts: createdAt); JSON.stringify turns a Date into its ISO string,
\* so JSON.parse(JSON.stringify(body)) is not the object that went in.
Null == [type |-> "null", id |-> 0, createdAt |-> "none", wellFormed |-> TRUE]

Object(i, c) == [type |-> "object", id |-> i, createdAt |-> c, wellFormed |-> TRUE]

String(i, w) == [type |-> "string", id |-> i, createdAt |-> "string", wellFormed |-> w]

\* index.js:269, 331, 388  { error: error.message }, sent by a handler's catch
ErrorBody == Object(2, "string")

Bodies == {Object(1, "Date"), ErrorBody}

\* index.js:263 and 269  res.json(...) in the try, res.status(500).json(...)
\* in the catch
HandlerStatus(body) == IF body = ErrorBody THEN 500 ELSE 200

JSON_stringify(v) == String(v.id, TRUE)

JSON_parse(s) == Object(s.id, "string")

ParseThrows(s) == ~s.wellFormed

Truthy(v) == v.type # "null"

\* ------------------------------------------------------------------ state
VARIABLES
  now,          \* Date.now()
  duration,     \* the argument of cache(duration)
  redisClient,  \* TRUE: a client object, FALSE: null
  redis,        \* the redis server: key -> [data, expires]
  memoryCache,  \* the Map: key -> [data, expires]
  req,          \* the requests in flight, one record per request
  lastPut,      \* history: key -> the last write the middleware made for it
  health,       \* history: the distributed calls made so far
  reads,        \* history: the requests the client has sent in the throttle window
  stalled,      \* TRUE: the redis server has stopped answering
  user,         \* the stored User document of one account
  docs,         \* the User documents loaded by callers (a bag of snapshots)
  track,        \* history: the failures recorded for the account
  login,        \* history: the answers of POST /login for the account
  gate,         \* the last request that came to authenticateToken, and its outcome
  keyed,        \* the last two requests whose cache keys were derived, and the keys
  checked       \* the last request that came to validateInput, and its outcome

cacheVars == <<duration, redisClient, redis, memoryCache, req, lastPut, health, reads, stalled>>

authVars == <<user, docs, track, login, gate, keyed, checked>>

vars == <<now, cacheVars, authVars>>

\* ------------------------------------------------------------------ redis
\* What the redis server answers to GET at time t: the value SETEX stored,
\* until its time to live has run out, and nil after that.
RedisLive(store, k, t) == k \in DOMAIN store /\ t < store[k].expires

RedisGetReply(k) == IF RedisLive(redis, k, now) THEN redis[k].data ELSE Null

\* Mutant: SETEX takes any time to live.
SetexAccepts_Any(d) == TRUE

\* SETEX rejects a time to live that is not positive (ERR invalid expire time).
SetexAccepts(d) == d > 0

RedisEntry(string, t, d) == [data |-> string, expires |-> t + d]

\* Mutant: the write is dropped.
MapSet_Skip(map, k, e) == map

MapSet(map, k, e) == [x \in (DOMAIN map) \cup {k} |-> IF x = k THEN e ELSE map[x]]

MapDelete(map, k) == [x \in (DOMAIN map) \ {k} |-> map[x]]

\* ------------------------------------------------------------------ history
\* The threshold and cooldown of the circuit breaker the specification
\* describes; the code holds neither, they only serve to state the claim.
Threshold == 2
Cooldown == 2

NoPut == [backend |-> "none", body |-> Null, expires |-> 0, setexThrew |-> FALSE]

InCooldown(h, t) == h.openedAt >= 0 /\ t < h.openedAt + Cooldown

\* The run of failed distributed calls so far, and when it reached Threshold.
Observe(h, failed) ==
  LET n == IF failed THEN (IF h.consecutiveFailures < Threshold
                           THEN h.consecutiveFailures + 1 ELSE Threshold)
           ELSE 0
  IN [h EXCEPT !.consecutiveFailures = n,
                !.openedAt = IF ~failed THEN -1
                             ELSE IF n = Threshold /\ h.consecutiveFailures < Threshold THEN now
                             ELSE h.openedAt]

\* ------------------------------------------------------------------ requests
\* pc: "idle", "get" (redisClient.get awaited), "handler" (next() called, the
\* handler has not answered yet), "setex" (redisClient.setex awaited), "done".
\* late, disturbed, readAt, expires are history kept while the get is awaited.
IdleReq ==
  [pc |-> "idle", key |-> <<"cache:", "">>, cached |-> Null, getThrew |-> FALSE,
   overridden |-> FALSE, body |-> Null, setexOk |-> FALSE,
   late |-> FALSE, disturbed |-> FALSE, readAt |-> 0, expires |-> 0,
   via |-> "none", wire |-> Null, nextCalls |-> 0, statusCode |-> 200]

\* Mutant: the expiry test lets the entry through at its expiry time.
MemoryFresh_AtExpiry(entry, t) == t <= entry.expires

\* index.js:148  Date.now() < cacheEntry.expires
MemoryFresh(entry, t) == t < entry.expires

\* Mutant: the entry's expiry time leaves the duration out.
MemoryEntry_NoDuration(body, t, d) == [data |-> body, expires |-> t]

\* index.js:167-170 and 174-177  { data: body, expires: Date.now() + duration * 1000 }
MemoryEntry(body, t, d) == [data |-> body, expires |-> t + d]

\* Mutant: the client is used without the null test.
UseRedis_Unchecked(client) == TRUE

\* index.js:137 and 162  if (redisClient)
UseRedis(client) == client

\* index.js:179  res.sendResponse(body): the original res.json serialises the
\* body and ends the request
SendResponse(q, body, via) ==
  [IdleReq EXCEPT !.pc = "done", !.key = q.key, !.wire = JSON_stringify(body),
                  !.via = via, !.nextCalls = q.nextCalls,
                  !.statusCode = q.statusCode]

\* A response sent by a middleware that stands before the route in place of
\* calling next().
Refuse(q, via) == [IdleReq EXCEPT !.pc = "done", !.key = q.key, !.via = via]

\* Mutant: the hit branch answers and, the return missing, goes on to next().
ServeCached_NoReturn(q, payload) ==
  [SendResponse(q, payload, "cache") EXCEPT !.pc = "handler", !.nextCalls = @ + 1]

\* index.js:155-157  if (cached) return res.json(...): the middleware answers
ServeCached(q, payload) == SendResponse(q, payload, "cache")

\* index.js:159-182  override res.json, then next()
PassOn(q) ==
  [IdleReq EXCEPT !.pc = "handler", !.key = q.key, !.overridden = TRUE,
                  !.nextCalls = q.nextCalls + 1]

\* Mutant: the catch block hands the error on (next(error)), and the error
\* handler answers 500.
CatchNext_Rethrow(q) == Refuse(q, "error")

\* index.js:183-185  catch (error) { next(); }
CatchNext(q) ==
  [IdleReq EXCEPT !.pc = "handler", !.key = q.key, !.overridden = FALSE,
                  !.nextCalls = q.nextCalls + 1]

\* Mutant: the Map is consulted whatever redis answered.
UseMemory_Always(cached, has) == has

\* index.js:146  if (!cached && memoryCache.has(key))
UseMemory(cached, has) == ~Truthy(cached) /\ has

\* index.js:145-185  the part of the middleware that runs once the redis get
\* has settled (or at once, when there is no client): q.cached is its result.
AfterGet(r, q) ==
  LET has    == q.key \in DOMAIN memoryCache
      useMem == UseMemory(q.cached, has)
      fresh  == useMem /\ MemoryFresh(memoryCache[q.key], now)
      cached == IF fresh THEN memoryCache[q.key].data ELSE q.cached
  IN /\ memoryCache' = IF useMem /\ ~fresh THEN MapDelete(memoryCache, q.key)
                       ELSE memoryCache
     /\ req' = [req EXCEPT ![r] =
          IF Truthy(cached)
          THEN IF cached.type = "string"
               THEN IF ParseThrows(cached) THEN CatchNext(q)
                    ELSE ServeCached(q, JSON_parse(cached))
               ELSE ServeCached(q, cached)
          ELSE PassOn(q)]

\* A setex for key k is awaited: the write it belongs to is not over.
WriteInFlight(k) == \E x \in DOMAIN req : req[x].pc = "setex" /\ req[x].key = k

\* A write for key k has taken effect: the gets awaited for k overlap it.
Disturb(rq, k) ==
  [x \in DOMAIN rq |-> IF rq[x].pc = "get" /\ rq[x].key = k
                       THEN [rq[x] EXCEPT !.disturbed = TRUE] ELSE rq[x]]

\* ------------------------------------------------------------------ cache middleware
\* index.js:130-143  a request arrives; with a client, redisClient.get(key) is
\* issued and awaited (it answers or throws), without one the middleware goes
\* straight on.
\* index.js:131  const key = `cache:${req.originalUrl}`
CacheKey(url) == <<"cache:", url>>

Keys == {CacheKey(u) : u \in Urls}

\* Mutant: a rate limiter is mounted before the routes.
AppUse_Limiter ==
  <<"limiter", "compression", "helmet", "cors", "express.json", "express.urlencoded">>

\* index.js:15-19  the middleware mounted with app.use, which every request
\* passes before it reaches its route
AppUse == <<"compression", "helmet", "cors", "express.json", "express.urlencoded">>

\* A middleware of the chain that answers the n-th request of the window
\* itself (429) and does not call next(): a rate limiter over its limit does,
\* the others always call next().
Rejects(m, n) == m = "limiter" /\ n > ThrottleLimit

RateLimited(n) == \E i \in 1..Len(AppUse) : Rejects(AppUse[i], n)

\* The requests of the window are counted up to one past the limit.
CountRead(n) == IF n > ThrottleLimit THEN n ELSE n + 1

Lookup(r, url) ==
  /\ req[r].pc \in {"idle", "done"}
  /\ reads' = CountRead(reads)
  /\ LET k  == CacheKey(url)
         q0 == [IdleReq EXCEPT !.key = k]
     IN IF RateLimited(CountRead(reads))
        THEN /\ req' = [req EXCEPT ![r] = Refuse(q0, "limiter")]
             /\ UNCHANGED <<memoryCache, health>>
        ELSE IF UseRedis(redisClient)
        THEN \E threw \in BOOLEAN :
               LET reply == IF threw THEN Null ELSE RedisGetReply(k)
                   live  == ~threw /\ Truthy(reply)
               IN /\ req' = [req EXCEPT ![r] =
                       [q0 EXCEPT !.pc = "get", !.getThrew = threw, !.cached = reply,
                                  !.late = (lastPut[k].backend # "none"
                                            /\ now >= lastPut[k].expires),
                                  !.disturbed = WriteInFlight(k),
                                  !.readAt = IF live THEN now ELSE 0,
                                  !.expires = IF live THEN redis[k].expires ELSE 0]]
                  /\ health' = Observe(health, threw)
                  /\ UNCHANGED memoryCache
        ELSE /\ AfterGet(r, q0)
             /\ UNCHANGED health
  /\ UNCHANGED <<now, duration, redisClient, redis, lastPut, stalled, authVars>>

\* index.js:145-185  the awaited get has settled
GetSettled(r) ==
  /\ req[r].pc = "get"
  /\ ~stalled
  /\ AfterGet(r, req[r])
  /\ UNCHANGED <<now, duration, redisClient, redis, lastPut, health, stalled, reads, authVars>>

\* Mutant: the setex is started and not awaited, the response goes out at once.
AwaitSetex_NotAwaited(q, body, ok) == SendResponse(q, body, "handler")

\* index.js:164  await redisClient.setex(...): the override is suspended until
\* the call settles
AwaitSetex(q, body, ok) == [q EXCEPT !.pc = "setex", !.body = body, !.setexOk = ok]

\* index.js:160-180  the handler calls res.json(body)
HandlerJson(r, body) ==
  /\ req[r].pc = "handler"
  /\ LET q == [req[r] EXCEPT !.statusCode = HandlerStatus(body)]
         k == q.key
     IN IF ~q.overridden
        THEN \* the catch path left res.json as express defines it
             /\ req' = [req EXCEPT ![r] = SendResponse(q, body, "handler")]
             /\ UNCHANGED <<redis, memoryCache, lastPut, health>>
        ELSE IF UseRedis(redisClient)
        THEN \E threw \in BOOLEAN :
               LET ok == ~threw /\ SetexAccepts(duration)
                   q1 == AwaitSetex(q, body, ok)
               IN /\ redis' = IF ok
                              THEN MapSet(redis, k, RedisEntry(JSON_stringify(body), now, duration))
                              ELSE redis
                  /\ lastPut' = IF ok
                                THEN [lastPut EXCEPT ![k] =
                                        [backend |-> "redis", body |-> body,
                                         expires |-> now + duration, setexThrew |-> FALSE]]
                                ELSE lastPut
                  /\ req' = IF ok THEN Disturb([req EXCEPT ![r] = q1], k)
                            ELSE [req EXCEPT ![r] = q1]
                  /\ health' = Observe(health, ~ok)
                  /\ UNCHANGED memoryCache
        ELSE /\ memoryCache' = MapSet(memoryCache, k, MemoryEntry(body, now, duration))
             /\ lastPut' = [lastPut EXCEPT ![k] =
                              [backend |-> "memory", body |-> body,
                               expires |-> now + duration, setexThrew |-> FALSE]]
             /\ req' = Disturb([req EXCEPT ![r] = SendResponse(q, body, "handler")], k)
             /\ UNCHANGED <<redis, health>>
  /\ UNCHANGED <<now, duration, redisClient, stalled, reads, authVars>>

\* Mutant: the catch block of the setex only logs, the Map is not written.
SetexSettled_LogOnly(r) ==
  /\ req[r].pc = "setex"
  /\ req' = [req EXCEPT ![r] = SendResponse(req[r], req[r].body, "handler")]
  /\ UNCHANGED <<now, duration, redisClient, redis, memoryCache, lastPut, health, stalled, reads, authVars>>

\* index.js:164-179  the awaited setex has settled: on a throw the catch block
\* writes the Map; either way the response is sent.
SetexSettled(r) ==
  /\ req[r].pc = "setex"
  /\ ~stalled
  /\ LET q == req[r]
         k == q.key
         done == [req EXCEPT ![r] = SendResponse(q, q.body, "handler")]
     IN IF q.setexOk
        THEN /\ req' = done
             /\ UNCHANGED <<memoryCache, lastPut>>
        ELSE /\ memoryCache' = MapSet(memoryCache, k, MemoryEntry(q.body, now, duration))
             /\ lastPut' = [lastPut EXCEPT ![k] =
                              [backend |-> "memory", body |-> q.body,
                               expires |-> now + duration, setexThrew |-> TRUE]]
             /\ req' = Disturb(done, k)
  /\ UNCHANGED <<now, duration, redisClient, redis, health, stalled, reads, authVars>>

\* index.js:39-47  the client's 'error' event, or a failed connect
\* Mutant: the 'error' handler logs and keeps the client.
OnError_KeepClient(client) == client

\* index.js:34-37 and 48-51  redisClient = null
OnError(client) == FALSE

\* index.js:34-37  redisClient.on('error', ...); health.droppedAt is history:
\* the time at which a client that was connected was given up (-1: never)
RedisClientError ==
  /\ redisClient
  /\ redisClient' = OnError(redisClient)
  /\ health' = [health EXCEPT !.droppedAt = now]
  /\ UNCHANGED <<now, duration, redis, memoryCache, req, lastPut, stalled, reads, authVars>>

\* The redis server stops answering while the connection stays open: the calls
\* awaited from then on neither answer nor throw.
RedisStall ==
  /\ redisClient
  /\ ~stalled
  /\ stalled' = TRUE
  /\ UNCHANGED <<now, duration, redisClient, redis, memoryCache, req, lastPut, health, reads, authVars>>

\* A value held by redis is damaged in place (another writer, a truncated write).
Corrupt(k) ==
  /\ RedisLive(redis, k, now)
  /\ redis[k].data.wellFormed
  /\ redis' = [redis EXCEPT ![k].data = String(redis[k].data.id, FALSE)]
  /\ UNCHANGED <<now, duration, redisClient, memoryCache, req, lastPut, health, stalled, reads, authVars>>

\* The clock advances; redis drops the keys whose time to live has run out.
Tick ==
  /\ now < MaxTime
  /\ now' = now + 1
  /\ redis' = [k \in {x \in DOMAIN redis : now + 1 < redis[x].expires} |-> redis[k]]
  /\ UNCHANGED <<duration, redisClient, memoryCache, req, lastPut, health, stalled, reads, authVars>>

EmptyMap == [k \in {} |-> Null]

InitCache ==
  /\ now = 0
  /\ duration \in Durations
  /\ redisClient \in BOOLEAN
  /\ redis = EmptyMap
  /\ memoryCache = EmptyMap
  /\ req = [r \in ReqIds |-> IdleReq]
  /\ lastPut = [k \in Keys |-> NoPut]
  /\ health = [consecutiveFailures |-> 0, openedAt |-> -1, droppedAt |-> -1]
  /\ reads = 0
  /\ stalled = FALSE

NextCache ==
  \/ \E r \in ReqIds, url \in Urls : Lookup(r, url)
  \/ \E r \in ReqIds : GetSettled(r)
  \/ \E r \in ReqIds, body \in Bodies : HandlerJson(r, body)
  \/ \E r \in ReqIds : SetexSettled(r)
  \/ RedisClientError
  \/ \E k \in Keys : Corrupt(k)
  \/ Tick

\* ------------------------------------------------------------------ User model
\* models/User.js.  In SpecAuth and SpecLogin a tick of the clock is one hour,
\* the unit lockTime is given in here.

\* User.js:53-56  lockUntil: { type: Date, default: null }
NullDate == -1

\* User.js:90  const maxAttempts = 5
maxAttempts == 5

\* User.js:91  const lockTime = 2 * 60 * 60 * 1000 (2 hours)
lockTime == 2

\* The callers that may hold a loaded document at once: one more than
\* maxAttempts.
MaxDocs == maxAttempts + 1

\* The failures recorded between two successes: those that lock the account
\* and two more, which meet the lock or its expiry together.
MaxFailures == maxAttempts + 2

\* User.js:49-56, 45-48  a new account
NewUser == [loginAttempts |-> 0, lockUntil |-> NullDate, lastLogin |-> NullDate]

\* User.js:75-77  return !!(this.lockUntil && this.lockUntil > Date.now())
isLocked(doc, t) == doc.lockUntil # NullDate /\ doc.lockUntil > t

\* User.js:82  this.lockUntil && this.lockUntil < Date.now()
LockExpired(doc, t) == doc.lockUntil # NullDate /\ doc.lockUntil < t

\* History: how an operation met the stored document: "locked" (now before
\* lockUntil), "lapsed" (lockUntil set and reached) or "unlocked" (no lockUntil).
Met(doc, t) ==
  IF doc.lockUntil = NullDate THEN "unlocked"
  ELSE IF isLocked(doc, t) THEN "locked" ELSE "lapsed"

\* Mutant: the comparison with maxAttempts is strict.
WillLock_OffByOne(doc, t) == doc.loginAttempts + 1 > maxAttempts /\ ~isLocked(doc, t)

\* User.js:93  this.loginAttempts + 1 >= maxAttempts && !this.isLocked()
WillLock(doc, t) == doc.loginAttempts + 1 >= maxAttempts /\ ~isLocked(doc, t)

\* User.js:80-98  the update incLoginAttempts sends, decided on the loaded
\* document doc and applied by the database to the stored document.
incLoginAttemptsUpdate(doc, stored, t) ==
  IF LockExpired(doc, t)
  THEN [stored EXCEPT !.loginAttempts = 1, !.lockUntil = NullDate]
  ELSE [stored EXCEPT !.loginAttempts = @ + 1,
                      !.lockUntil = IF WillLock(doc, t) THEN t + lockTime ELSE @]

\* Mutant: the counter is reset, lockUntil is left in the document.
resetLoginAttemptsUpdate_KeepLock(stored) == [stored EXCEPT !.loginAttempts = 0]

\* User.js:101-106  the update resetLoginAttempts sends
resetLoginAttemptsUpdate(stored) ==
  [stored EXCEPT !.loginAttempts = 0, !.lockUntil = NullDate]

InFlight == BagCardinality(docs)

\* A caller loads the account's document (User.findOne).
FindOne ==
  /\ InFlight < MaxDocs
  /\ track.failures + InFlight < MaxFailures
  /\ docs' = docs (+) SetToBag({user})
  /\ UNCHANGED <<now, cacheVars, user, track, login, gate, keyed, checked>>

\* User.js:80-98  a caller records a failure on the document it loaded
IncLoginAttempts(doc) ==
  /\ doc \in BagToSet(docs)
  /\ user' = incLoginAttemptsUpdate(doc, user, now)
  /\ docs' = docs (-) SetToBag({doc})
  /\ track' = [failures   |-> track.failures + 1,
               sequential |-> track.sequential /\ doc = user,
               last       |-> "failure",
               met        |-> Met(user, now)]
  /\ UNCHANGED <<now, cacheVars, login, gate, keyed, checked>>

\* User.js:101-106  a caller records a success on the document it loaded
ResetLoginAttempts(doc) ==
  /\ doc \in BagToSet(docs)
  /\ user' = resetLoginAttemptsUpdate(user)
  /\ docs' = docs (-) SetToBag({doc})
  /\ track' = [failures   |-> 0,
               sequential |-> track.sequential /\ doc = user,
               last       |-> "success",
               met        |-> Met(user, now)]
  /\ UNCHANGED <<now, cacheVars, login, gate, keyed, checked>>

\* ------------------------------------------------------------------ POST /login
\* routes/auth.js:71-114, behind validateInput(loginValidation) and
\* sanitizeInput.  The handler reads neither loginAttempts nor lockUntil and
\* calls none of isLocked, incLoginAttempts, resetLoginAttempts.

\* SECURITY.md: strict rate limiting for sensitive endpoints, 5 requests per
\* 15 minutes (one window lies within one tick of the clock of SpecLogin)
strictLimit == 5

\* The body of a login request after express.json: "" is a field that is
\* missing or empty, "known" the e-mail of the account, "right" its password.
LoginInputs == [email : {"", "known", "unknown"}, password : {"", "right", "wrong"}]

\* auth.js:16-19, security.js:10-17  both fields are required
loginValidation(body) ==
  (IF body.email = "" THEN {"email is required"} ELSE {})
    \cup (IF body.password = "" THEN {"password is required"} ELSE {})

Undefined == "undefined"

\* The bcrypt hash stored for the account's password.
StoredHash == "hash(right)"

\* User.js:26-31  password: { select: false }: a query that does not ask for
\* the field (auth.js:79 does not) returns the document without it.
Selected(field) == field # "password"

\* auth.js:79  the document User.findOne yields for the e-mail
LoadedPassword == IF Selected("password") THEN StoredHash ELSE Undefined

\* security.js:128-130  bcrypt.compare(password, hash) rejects (Illegal
\* arguments) when hash is not a string
CompareThrows(hash) == hash = Undefined

verifyPassword(password, hash) == hash = StoredHash /\ password = "right"

Answer(status, error) == [status |-> status, error |-> error]

\* auth.js:75-112  the handler's answer; dbUp: the query reaches the database
LoginAnswer(body, dbUp) ==
  IF loginValidation(body) # {} THEN Answer(400, "errors")
  ELSE IF ~dbUp THEN Answer(500, "Login failed")
  ELSE IF body.email # "known" THEN Answer(401, "Invalid credentials")
  ELSE IF CompareThrows(LoadedPassword) THEN Answer(500, "Login failed")
  ELSE IF ~verifyPassword(body.password, LoadedPassword)
       THEN Answer(401, "Invalid credentials")
  ELSE Answer(200, "Login successful")

Login(body, dbUp) ==
  LET a       == LoginAnswer(body, dbUp)
      valid   == loginValidation(body) = {}
      failed  == valid /\ dbUp /\ body.email = "known" /\ body.password = "wrong"
      streak  == IF failed THEN (IF login.streak < maxAttempts
                                 THEN login.streak + 1 ELSE login.streak)
                 ELSE IF a.status = 200 THEN 0 ELSE login.streak
  IN /\ user' = IF a.status = 200 THEN [user EXCEPT !.lastLogin = now] ELSE user
     /\ login' = [streak   |-> streak,
                  fifthAt  |-> IF failed /\ login.streak + 1 = maxAttempts THEN now
                               ELSE IF streak = 0 THEN NullDate ELSE login.fifthAt,
                  answer   |-> a,
                  windowAt |-> now,
                  count    |-> IF login.windowAt # now THEN 1
                               ELSE IF login.count > strictLimit THEN login.count
                               ELSE login.count + 1,
                  rejected |-> IF valid /\ dbUp /\ a.status # 200
                               THEN login.rejected \cup {a} ELSE login.rejected]
     /\ UNCHANGED <<now, cacheVars, docs, track, gate, keyed, checked>>

\* ------------------------------------------------------------------ authenticateToken
\* middleware/security.js:94-110.  In SpecToken a tick of the clock is twelve
\* hours.

\* security.js:115  expiresIn: '24h'
tokenLife == 2

\* The tokens a client may present: signed with the server's secret or not,
\* whenever they were issued (exp = the time of issue + tokenLife).
Tokens == [sub : {"u1"}, exp : 0..(MaxTime + tokenLife), sig : {"secret", "forged"}]

\* security.js:113-119  jwt.sign(payload, secret, { expiresIn: '24h', ... })
generateToken(payload, t) == [sub |-> payload, exp |-> t + tokenLife, sig |-> "secret"]

\* Words that are no token: the value undefined, and the empty string.
NoWord == [sub |-> Undefined, exp |-> 0, sig |-> "undefined"]

EmptyWord == [sub |-> Undefined, exp |-> 0, sig |-> "empty"]

Word(w) == [sub |-> Undefined, exp |-> 0, sig |-> w]

\* The Authorization header as its words; << >> is a request without it,
\* EmptyWord what follows the blank of "Bearer " when nothing does.
Headers ==
  {<< >>} \cup {<<Word(s)>> : s \in {"Bearer", "Basic"}}
         \cup {<<Word(s), t>> : s \in {"Bearer", "Basic"}, t \in Tokens \cup {EmptyWord}}

\* security.js:97  authHeader && authHeader.split(' ')[1]
SplitToken(h) == IF Len(h) >= 2 THEN h[2] ELSE NoWord

\* security.js:99  if (!token)
NoToken(token) == token = NoWord \/ token = EmptyWord

\* Mutant: the expiry of the token is not checked.
jwt_verify_IgnoreExpiration(token, t) == token.sig = "secret"

\* security.js:103  jwt.verify(token, secret, callback): err unless the
\* signature is the secret's and the token has not expired
jwt_verify(token, t) == token.sig = "secret" /\ t < token.exp

\* security.js:95-110
authenticateToken(h) ==
  /\ LET token == SplitToken(h)
     IN gate' =
          IF NoToken(token)
          THEN [header |-> h, at |-> now, status |-> 401,
                error |-> "Access token required", nextCalls |-> 0, user |-> Undefined]
          ELSE IF ~jwt_verify(token, now)
          THEN [header |-> h, at |-> now, status |-> 403,
                error |-> "Invalid or expired token", nextCalls |-> 0, user |-> Undefined]
          ELSE [header |-> h, at |-> now, status |-> 0,
                error |-> "none", nextCalls |-> 1, user |-> token.sub]
  /\ UNCHANGED <<now, cacheVars, user, docs, track, login, keyed, checked>>

\* ------------------------------------------------------------------ cache keys
\* index.js:131, for the requests that reach cache(): the routes that mount it
\* are app.get routes (234, 273, 336), which express also calls for HEAD.
Methods == {"GET", "HEAD"}

Paths == {"/api/users", "/api/products"}

Queries == {"", "?page=2", "?page=3"}

Requests == [method : Methods, path : Paths, query : Queries]

NoRequest == [method |-> "", path |-> "", query |-> ""]

\* Mutant: the key is made from req.path, the query string left out.
originalUrl_PathOnly(request) == <<request.path, "">>

\* index.js:131  req.originalUrl: the path and the query string as requested
originalUrl(request) == <<request.path, request.query>>

\* index.js:131  the keys the middleware derives for two requests
DeriveKeys(a, b) ==
  /\ keyed' = [a |-> a, b |-> b,
               ka |-> CacheKey(originalUrl(a)), kb |-> CacheKey(originalUrl(b))]
  /\ UNCHANGED <<now, cacheVars, user, docs, track, login, gate, checked>>

InitKeyed ==
  keyed = [a |-> NoRequest, b |-> NoRequest,
           ka |-> CacheKey(originalUrl(NoRequest)),
           kb |-> CacheKey(originalUrl(NoRequest))]

\* ------------------------------------------------------------------ validateInput
\* middleware/security.js:5-60 with the rules of POST /register
\* (routes/auth.js:9-13).  A value is what a field of a JSON body parsed by
\* express.json() can hold: nothing, a string (its length, and whether
\* validator.isEmail accepts it) or a number (zero or not).
JsUndefined == [type |-> "undefined", length |-> 0, email |-> FALSE, zero |-> FALSE]

Str(n, e) == [type |-> "string", length |-> n, email |-> e, zero |-> FALSE]

Num(z) == [type |-> "number", length |-> 0, email |-> FALSE, zero |-> z]

\* security.js:14 and 19  !value
Falsy(v) ==
  \/ v.type = "undefined"
  \/ v.type = "string" /\ v.length = 0
  \/ v.type = "number" /\ v.zero

\* routes/auth.js:9-13; a rule the object does not carry is "" or 0, which the
\* tests of security.js:20-42 skip
registerValidation ==
  [name     |-> [required |-> TRUE, type |-> "", minLength |-> 2, maxLength |-> 100],
   email    |-> [required |-> TRUE, type |-> "email", minLength |-> 0, maxLength |-> 0],
   password |-> [required |-> TRUE, type |-> "", minLength |-> 8, maxLength |-> 128]]

\* security.js:11  for (const field in validationRules)
Fields == <<"name", "email", "password">>

NameValues == {JsUndefined, Str(0, FALSE), Str(1, FALSE), Str(2, FALSE), Str(101, FALSE),
               Num(FALSE)}

EmailValues == {JsUndefined, Str(0, FALSE), Str(6, TRUE), Str(6, FALSE),
                Num(FALSE), Num(TRUE)}

PasswordValues == {JsUndefined, Str(7, FALSE), Str(8, FALSE), Str(129, FALSE)}

NoFields == [f \in {"name", "email", "password"} |-> JsUndefined]

\* The requests that come to POST /register: a JSON body, and a query string
\* that is empty or names every field.
Submissions ==
  [body  : [name : NameValues, email : EmailValues, password : PasswordValues],
   query : {NoFields, [f \in {"name", "email", "password"} |-> Str(8, TRUE)]}]

\* security.js:13  req.body[field] || req.query[field] || req.params[field]
\* (the route has no parameters)
FieldValue(r, field) ==
  IF ~Falsy(r.body[field]) THEN r.body[field]
  ELSE IF ~Falsy(r.query[field]) THEN r.query[field]
  ELSE JsUndefined

\* security.js:20  validator.isEmail(value) asserts that value is a string and
\* throws a TypeError otherwise
IsEmailThrows(v) == v.type # "string"

FieldThrows(rules, v) == ~Falsy(v) /\ rules.type = "email" /\ IsEmailThrows(v)

Err(field, rule) == [field |-> field, rule |-> rule]

\* security.js:14-51  the errors pushed for one field; value.length of a
\* number is undefined and every comparison with it is false
FieldErrors(field, rules, v) ==
  IF rules.required /\ Falsy(v) THEN <<Err(field, "required")>>
  ELSE IF Falsy(v) THEN << >>
  ELSE (IF rules.type = "email" /\ ~v.email THEN <<Err(field, "email")>> ELSE << >>)
       \o (IF rules.minLength > 0 /\ v.type = "string" /\ v.length < rules.minLength
           THEN <<Err(field, "minLength")>> ELSE << >>)
       \o (IF rules.maxLength > 0 /\ v.type = "string" /\ v.length > rules.maxLength
           THEN <<Err(field, "maxLength")>> ELSE << >>)

RECURSIVE ErrorsUpTo(_, _, _)
\* security.js:9-52  the errors array after the first i fields
ErrorsUpTo(validationRules, r, i) ==
  IF i = 0 THEN << >>
  ELSE ErrorsUpTo(validationRules, r, i - 1)
         \o FieldErrors(Fields[i], validationRules[Fields[i]], FieldValue(r, Fields[i]))

Outcome(status, errors, nextCalls, threw) ==
  [status |-> status, errors |-> errors, nextCalls |-> nextCalls, threw |-> threw]

\* security.js:7-59  what the middleware does with a request: status is the
\* status of the response it sends (0: it sends none), threw: an exception left
\* it (express hands it to the error handler, index.js:414)
validateInput(validationRules, r) ==
  IF \E i \in 1..Len(Fields) :
       FieldThrows(validationRules[Fields[i]], FieldValue(r, Fields[i]))
  THEN Outcome(0, << >>, 0, TRUE)
  ELSE LET errors == ErrorsUpTo(validationRules, r, Len(Fields))
       IN IF Len(errors) > 0 THEN Outcome(400, errors, 0, FALSE)
          ELSE Outcome(0, << >>, 1, FALSE)

\* routes/auth.js:22-23  a request comes to validateInput(registerValidation)
Register(r) ==
  /\ checked' = [came |-> TRUE, request |-> r,
                 outcome |-> validateInput(registerValidation, r)]
  /\ UNCHANGED <<now, cacheVars, user, docs, track, login, gate, keyed>>

InitChecked ==
  checked = [came |-> FALSE, request |-> [body |-> NoFields, query |-> NoFields],
             outcome |-> Outcome(0, << >>, 0, FALSE)]

InitAuth ==
  /\ InitKeyed
  /\ InitChecked
  /\ gate = [header |-> << >>, at |-> 0, status |-> 0, error |-> "none",
             nextCalls |-> 0, user |-> Undefined]
  /\ user = NewUser
  /\ docs = EmptyBag
  /\ track = [failures |-> 0, sequential |-> TRUE, last |-> "none", met |-> "unlocked"]
  /\ login = [streak |-> 0, fifthAt |-> NullDate, answer |-> Answer(0, "none"),
              windowAt |-> 0, count |-> 0, rejected |-> {}]

RecordFailure == \E doc \in BagToSet(docs) : IncLoginAttempts(doc)

RecordSuccess == \E doc \in BagToSet(docs) : ResetLoginAttempts(doc)

NextAuth ==
  \/ FindOne
  \/ RecordFailure
  \/ RecordSuccess
  \/ Tick

Init == InitCache /\ InitAuth

\* The cache middleware under requests, failing distributed calls and time.
SpecCache == Init /\ [][NextCache]_vars

\* The methods of the User model under callers that load the account's
\* document and record failures and successes on it, in any interleaving.
\* The cache is left as a development server has it (no redis client).
InitUser == Init /\ duration = MaxDuration /\ ~redisClient

SpecAuth == InitUser /\ [][NextAuth]_vars

\* The cache middleware with a client, under a redis server that may stop
\* answering.  What the runtime guarantees: a call that has settled resumes the
\* middleware, and a handler that was called sends its response.
InitLive == Init /\ duration = MaxDuration /\ redisClient

NextLive ==
  \/ \E r \in ReqIds, url \in Urls : Lookup(r, url)
  \/ \E r \in ReqIds : GetSettled(r)
  \/ \E r \in ReqIds, body \in Bodies : HandlerJson(r, body)
  \/ \E r \in ReqIds : SetexSettled(r)
  \/ RedisStall

Resumes ==
  \A r \in ReqIds :
    /\ WF_vars(GetSettled(r))
    /\ WF_vars(SetexSettled(r))
    /\ WF_vars(\E body \in Bodies : HandlerJson(r, body))

SpecLive == InitLive /\ [][NextLive]_vars /\ Resumes

\* The server without a redis client, every put going to the Map with a
\* duration of one tick.  Time passes and a handler that was called answers;
\* nothing obliges a client to send a request.
InitLocal == Init /\ duration = 1 /\ ~redisClient

NextLocal ==
  \/ \E r \in ReqIds, url \in Urls : Lookup(r, url)
  \/ \E r \in ReqIds, body \in Bodies : HandlerJson(r, body)
  \/ Tick

SpecLocal ==
  /\ InitLocal /\ [][NextLocal]_vars
  /\ WF_vars(Tick)
  /\ \A r \in ReqIds : WF_vars(\E body \in Bodies : HandlerJson(r, body))

NextKey == \E a \in Requests, b \in Requests : DeriveKeys(a, b)

\* The key derivation of the cache middleware under any two requests.
SpecKey == InitUser /\ [][NextKey]_vars

NextRegister == \E r \in Submissions : Register(r)

\* validateInput(registerValidation) under any request.
SpecRegister == InitUser /\ [][NextRegister]_vars

NextToken ==
  \/ \E h \in Headers : authenticateToken(h)
  \/ Tick

\* A protected route under requests with any Authorization header, and time.
SpecToken == InitUser /\ [][NextToken]_vars

NextLogin ==
  \/ \E body \in LoginInputs, dbUp \in BOOLEAN : Login(body, dbUp)
  \/ Tick

\* The login route as the server mounts it, under attempts and time.
SpecLogin == InitUser /\ [][NextLogin]_vars

\* ------------------------------------------------------------------ cache claims
\* A step in which the lookup of request r ends: the middleware answers from
\* the cache (pc' = "done") or hands the request on (pc' = "handler").
LookupEnds(r) ==
  /\ req'[r] # req[r]
  /\ req[r].pc \in {"idle", "done", "get"}
  /\ req'[r].pc \in {"done", "handler"}

\* The lookup made no distributed call (there was no client).
Direct(r) == req[r].pc # "get"

FromRedis(r) == ~Direct(r) /\ Truthy(req[r].cached)

\* The lookup came after the writes for its key: none was in flight when it
\* began and none took effect while it was under way.
Undisturbed(r) ==
  IF Direct(r) THEN ~WriteInFlight(req'[r].key) ELSE ~req[r].disturbed

\* The lookup began when the last write's expiry time had been reached.
Late(r) ==
  IF Direct(r) THEN now >= lastPut[req'[r].key].expires ELSE req[r].late

HitWith(r, body) ==
  /\ req'[r].pc = "done"
  /\ req'[r].via = "cache"
  /\ req'[r].wire = JSON_stringify(body)

Miss(r) == req'[r].pc = "handler"

C2_NeverServesExpired ==
  [][\A r \in ReqIds :
       LookupEnds(r) =>
         LET k == req'[r].key
         IN /\ req'[r].pc = "done" =>
                 IF FromRedis(r) THEN req[r].readAt < req[r].expires
                 ELSE k \in DOMAIN memoryCache /\ now < memoryCache[k].expires
            /\ (/\ ~FromRedis(r)
                /\ k \in DOMAIN memoryCache
                /\ now >= memoryCache[k].expires)
               => Miss(r) /\ k \notin DOMAIN memoryCache']_vars

C2_Witness ==
  \E r \in ReqIds :
    /\ req[r].pc = "handler"
    /\ duration > 0
    /\ lastPut[req[r].key].backend = "memory"
    /\ now >= lastPut[req[r].key].expires
    /\ req[r].key \notin DOMAIN memoryCache

\* C3: when the distributed calls fail, the put writes the value to the local
\* store, a get of the key within the TTL is a hit, and what the caller
\* receives is what a distributed hit would have sent.
C3_FallbackTransparent ==
  [][\A r \in ReqIds :
       /\ (req[r].pc = "setex" /\ ~req[r].setexOk /\ req'[r].pc = "done") =>
            /\ req[r].key \in DOMAIN memoryCache'
            /\ memoryCache'[req[r].key] = [data |-> req[r].body, expires |-> now + duration]
            /\ req'[r].wire = JSON_stringify(req[r].body)
       /\ LookupEnds(r) =>
            LET lp == lastPut[req'[r].key]
            IN (/\ req[r].pc = "get" /\ req[r].getThrew /\ ~req[r].disturbed
                /\ lp.backend = "memory" /\ lp.setexThrew
                /\ now < lp.expires)
               => /\ HitWith(r, lp.body)
                  /\ req'[r].wire = JSON_stringify(JSON_parse(JSON_stringify(lp.body)))]_vars

C3_Witness ==
  \E r \in ReqIds :
    /\ req[r].pc = "done" /\ req[r].via = "cache"
    /\ redisClient
    /\ health.consecutiveFailures = Threshold
    /\ lastPut[req[r].key].backend = "memory" /\ lastPut[req[r].key].setexThrew
    /\ req[r].wire = JSON_stringify(lastPut[req[r].key].body)

\* The cache operations of a step, by whether they call the distributed backend.
GetCall(r) == req[r].pc \in {"idle", "done"} /\ req'[r].pc = "get"

GetLocal(r) == LookupEnds(r) /\ Direct(r)

PutCall(r) == req[r].pc = "handler" /\ req'[r].pc = "setex"

PutLocal(r) == req[r].pc = "handler" /\ req[r].overridden /\ req'[r].pc = "done"

C10_HitSkipsHandler ==
  \A r \in ReqIds :
    /\ req[r].via = "cache" => req[r].nextCalls = 0 /\ req[r].pc = "done"
    /\ req[r].pc \in {"handler", "setex"} => req[r].via = "none" /\ req[r].nextCalls = 1
    /\ req[r].via = "handler" => req[r].nextCalls = 1

C10_Witness ==
  \E r \in ReqIds : req[r].pc = "done" /\ req[r].via = "cache" /\ req[r].nextCalls = 0

\* A step in which request r arrives at the server.
Arrives(r) == req[r].pc \in {"idle", "done"} /\ req'[r] # req[r]

C13_FailuresAbsorbed ==
  [][\A r \in ReqIds :
       /\ req'[r].pc = "done" =>
            /\ req'[r].via \in {"cache", "handler"}
            /\ \E body \in Bodies : req'[r].wire = JSON_stringify(body)
       /\ (req[r].pc = "get" /\ req'[r].pc # "get") =>
            /\ req'[r].pc \in {"done", "handler"}
            /\ (Truthy(req[r].cached) /\ ParseThrows(req[r].cached))
                 => req'[r].pc = "handler"
       /\ (req[r].pc = "setex" /\ req'[r].pc # "setex") =>
            /\ req'[r].pc = "done" /\ req'[r].via = "handler"
            /\ req'[r].wire = JSON_stringify(req[r].body)]_vars

C13_Witness ==
  \E r \in ReqIds :
    /\ redisClient
    /\ req[r].pc = "done" /\ req[r].via = "handler"
    /\ lastPut[req[r].key].setexThrew
    /\ req[r].wire = JSON_stringify(lastPut[req[r].key].body)
    /\ \E x \in ReqIds : req[x].pc = "handler" /\ ~req[x].overridden

\* C15: a put leaves the value in a backend: a setex that succeeds leaves it
\* in redis, a setex that fails leaves it in the Map, and without a client the
\* put writes the Map; a handler whose res.json was overridden always puts.
C15_PutLands ==
  [][\A r \in ReqIds :
       LET k == req[r].key
       IN /\ (req[r].pc = "handler" /\ req[r].overridden /\ req'[r] # req[r])
               => PutCall(r) \/ PutLocal(r)
          /\ (PutCall(r) /\ req'[r].setexOk) =>
               /\ k \in DOMAIN redis'
               /\ redis'[k].data = JSON_stringify(req'[r].body)
          /\ (req[r].pc = "setex" /\ ~req[r].setexOk /\ req'[r].pc = "done") =>
               /\ k \in DOMAIN memoryCache'
               /\ memoryCache'[k].data = req[r].body
          /\ PutLocal(r) =>
               /\ k \in DOMAIN memoryCache'
               /\ req'[r].wire = JSON_stringify(memoryCache'[k].data)]_vars

C15_Witness ==
  \E r \in ReqIds :
    /\ req[r].pc = "done" /\ req[r].via = "handler"
    /\ lastPut[req[r].key].backend = "redis"
    /\ req[r].key \in DOMAIN redis
    /\ redis[req[r].key].data = req[r].wire

\* A step in which request r makes or completes a put.
PutStep(r) == req[r].pc \in {"handler", "setex"} /\ req[r].overridden /\ req'[r] # req[r]

\* C18, as claimed: a put with a TTL <= 0 changes neither store.
C18_AsClaimed ==
  [][\A r \in ReqIds :
       (duration <= 0 /\ PutStep(r)) =>
          redis' = redis /\ memoryCache' = memoryCache]_vars

\* C18, amended: a put with a TTL <= 0 never leads to a hit: it leaves redis
\* as it was, the entry it writes to the Map is expired from the start, and
\* no request is answered from the cache.
C18_NeverCached ==
  [][duration <= 0 =>
       \A r \in ReqIds :
         /\ req'[r].via # "cache"
         /\ PutStep(r) =>
              /\ redis' = redis
              /\ memoryCache' # memoryCache =>
                   /\ req[r].key \in DOMAIN memoryCache'
                   /\ memoryCache'[req[r].key].expires <= now
                   /\ ~MemoryFresh(memoryCache'[req[r].key], now)]_vars

C18_Witness ==
  \E r \in ReqIds :
    /\ duration = 0
    /\ req[r].pc = "handler" /\ req[r].overridden
    /\ lastPut[req[r].key].backend = "memory"
    /\ req[r].key \notin DOMAIN memoryCache

\* C14, as claimed: a request that awaits a distributed call (get or setex)
\* is answered in the end, whether the call completes or not.
C14_AsClaimed ==
  \A r \in ReqIds : (req[r].pc \in {"get", "setex"}) ~> (req[r].pc = "done")

\* C21: a get that redis answers with a value leaves the Map as it was: no
\* entry of it is written or deleted when the lookup goes on, and none is read
\* in place of the value redis gave (a readable value is the one answered).
C21_RedisHitLeavesMap ==
  [][\A r \in ReqIds :
       (req[r].pc = "get" /\ Truthy(req[r].cached) /\ req'[r].pc # "get")
         => /\ memoryCache' = memoryCache
            /\ ~ParseThrows(req[r].cached)
                 => req'[r].wire = JSON_stringify(JSON_parse(req[r].cached))]_vars

C21_Witness ==
  \E r \in ReqIds :
    /\ req[r].pc = "done" /\ req[r].via = "cache"
    /\ redisClient
    /\ req[r].key \in DOMAIN memoryCache
    /\ now >= memoryCache[req[r].key].expires

\* C22, as claimed: a lookup that meets an unreadable value hands the request
\* to the handler and purges the value: when the lookup has ended, the store
\* no longer holds an unreadable value for the key.
C22_AsClaimed ==
  [][\A r \in ReqIds :
       (req[r].pc = "get" /\ Truthy(req[r].cached) /\ ParseThrows(req[r].cached)
          /\ req'[r].pc # "get")
         => /\ req'[r].pc = "handler"
            /\ ~(RedisLive(redis', req[r].key, now)
                   /\ ParseThrows(redis'[req[r].key].data))]_vars

\* The Map holds, for the key of r, the body that r's response carries.
MapHoldsAnswer(r) ==
  /\ req'[r].key \in DOMAIN memoryCache'
  /\ JSON_stringify(memoryCache'[req'[r].key].data) = req'[r].wire

C26_AsClaimed ==
  \A r \in ReqIds :
    (req[r].pc = "done" /\ req[r].via = "cache")
      => \E body \in Bodies : /\ req[r].wire = JSON_stringify(body)
                              /\ req[r].statusCode = HandlerStatus(body)

\* The client was given up at least Cooldown ago.
CooledDown == health.droppedAt >= 0 /\ now >= health.droppedAt + Cooldown

HoldsExpired(k) == k \in DOMAIN memoryCache /\ ~MemoryFresh(memoryCache[k], now)

\* C23, as claimed: an entry of the Map whose expiry has passed does not stay
\* for good: whether or not its key is looked up again, a time comes at which
\* the Map no longer holds it.
C23_AsClaimed ==
  \A k \in Keys : (HoldsExpired(k) /\ now < MaxTime) ~> ~HoldsExpired(k)

\* C29, as claimed: two requests get the same key exactly when they agree in
\* method, path and query.
C29_AsClaimed ==
  keyed.a # NoRequest => (keyed.ka = keyed.kb <=> keyed.a = keyed.b)

\* C29, amended: two requests get the same key exactly when they agree in
\* path and query string; the method has no part in the key.
C29_KeyIsOriginalUrl ==
  keyed.a # NoRequest
    => (keyed.ka = keyed.kb
          <=> (keyed.a.path = keyed.b.path /\ keyed.a.query = keyed.b.query))

C29_Witness ==
  /\ keyed.a.method = "GET" /\ keyed.b.method = "HEAD"
  /\ keyed.a.path = keyed.b.path
  /\ keyed.a.query = "?page=2" /\ keyed.b.query = "?page=2"
  /\ keyed.ka = keyed.kb

\* A rule of the field is violated by the value the request gives for it: a
\* required field is missing or empty, an e-mail field holds something that is
\* not a valid address, a string is shorter or longer than allowed.
RuleViolated(rules, v) ==
  \/ rules.required /\ Falsy(v)
  \/ ~Falsy(v) /\ rules.type = "email" /\ ~v.email
  \/ v.type = "string" /\ v.length > 0 /\ rules.minLength > 0 /\ v.length < rules.minLength
  \/ v.type = "string" /\ rules.maxLength > 0 /\ v.length > rules.maxLength

\* C30, as claimed: validateInput answers 400 with a non-empty error list and
\* does not call next, or calls next once and sends nothing; it calls next
\* exactly when no rule is violated; a required field that is missing or
\* empty has an error in the list.
C30_AsClaimed ==
  checked.came =>
    LET o == checked.outcome
        value(i) == FieldValue(checked.request, Fields[i])
        rules(i) == registerValidation[Fields[i]]
    IN /\ \/ o.status = 400 /\ Len(o.errors) > 0 /\ o.nextCalls = 0
          \/ o.status = 0 /\ o.nextCalls = 1
       /\ o.nextCalls = 1
            <=> ~\E i \in 1..Len(Fields) : RuleViolated(rules(i), value(i))
       /\ \A i \in 1..Len(Fields) :
            (rules(i).required /\ Falsy(value(i)))
              => \E j \in 1..Len(o.errors) : o.errors[j] = Err(Fields[i], "required")

\* ------------------------------------------------------------------ lockout claims
\* A step in which a caller records a failure (incLoginAttempts).
FailureRecorded == track'.failures = track.failures + 1

\* C4: with maxAttempts = 5 and lockTime = 2 hours, the failures of a fresh
\* account recorded one after the other, each on a freshly loaded document,
\* leave it unlocked with loginAttempts = k after the k-th (k < 5), and the
\* 5th sets lockUntil = now + lockTime, so that isLocked holds.
C4_LockoutAfterFive ==
  [][(FailureRecorded /\ track'.sequential) =>
       /\ track'.failures < maxAttempts =>
            /\ user'.loginAttempts = track'.failures
            /\ user'.lockUntil = NullDate
            /\ ~isLocked(user', now)
       /\ track'.failures = maxAttempts =>
            /\ user'.loginAttempts = maxAttempts
            /\ user'.lockUntil = now + lockTime
            /\ isLocked(user', now)]_vars

C4_Witness ==
  /\ track.sequential
  /\ track.failures = maxAttempts
  /\ user.loginAttempts = maxAttempts
  /\ user.lockUntil = now + lockTime
  /\ isLocked(user, now)

\* C5, as claimed: a failure recorded while the account is locked (on a
\* document that shows the lock) leaves loginAttempts as it was.
C5_AsClaimed ==
  [][(FailureRecorded /\ track'.sequential /\ isLocked(user, now)) =>
       user'.loginAttempts = user.loginAttempts]_vars

\* C6, as claimed: once maxAttempts consecutive attempts with a wrong password
\* have been made for the account, the login handler has recorded them with the
\* lockout methods, so that until lockTime has passed the account is locked
\* and no login for it succeeds.
C6_AsClaimed ==
  (login.streak >= maxAttempts /\ now < login.fifthAt + lockTime) =>
    /\ user.loginAttempts >= maxAttempts
    /\ isLocked(user, now)
    /\ login.answer.status # 200

\* C12, as claimed: the login endpoint allows strictLimit requests of a client
\* in one window and answers every further request of that window 429.
C12_AsClaimed == login.count > strictLimit => login.answer.status = 429

\* C20, as claimed: the rejections of well-formed login requests, whether the
\* e-mail is the account's or not and whether the password is right or wrong,
\* are one and the same answer (status and body).
C20_AsClaimed == Cardinality(login.rejected) <= 1

\* C7, as claimed: maxAttempts + 1 failures of a fresh account recorded by
\* concurrent callers leave the account locked with every failure counted,
\* and a lock in force is not set again.
C7_AsClaimed ==
  [][FailureRecorded =>
       /\ (track'.failures > maxAttempts /\ docs' = EmptyBag /\ now = 0) =>
            /\ isLocked(user', now)
            /\ user'.loginAttempts = track'.failures
       /\ isLocked(user, now) => user'.lockUntil = user.lockUntil]_vars

\* C8, as claimed: every failure recorded for an account that is stored
\* unlocked adds one to the stored counter, whatever the callers' loaded
\* documents show; in particular when two callers have both met the lock
\* expired, the second failure is counted on top of the first.
C8_AsClaimed ==
  [][(FailureRecorded /\ user.lockUntil = NullDate) =>
       user'.loginAttempts = user.loginAttempts + 1]_vars

\* A step in which a caller records a success (resetLoginAttempts).
SuccessRecorded ==
  /\ BagCardinality(docs') < BagCardinality(docs)
  /\ track'.last = "success"

\* C16: a success recorded for an account that is not locked, with any count
\* of failures and also after a lock has lapsed, leaves loginAttempts = 0 and
\* the account unlocked with no lockUntil.
C16_SuccessResets ==
  [][(SuccessRecorded /\ ~isLocked(user, now)) =>
       /\ user'.loginAttempts = 0
       /\ user'.lockUntil = NullDate
       /\ ~isLocked(user', now)]_vars

C16_Witness ==
  /\ track.last = "success" /\ track.met = "lapsed"
  /\ user.loginAttempts = 0
  /\ user.lockUntil = NullDate

\* C17, as claimed: a failure recorded (on a freshly loaded document) when
\* lockUntil has been reached, now >= lockUntil, leaves loginAttempts = 1 and
\* no lock.
C17_AsClaimed ==
  [][(FailureRecorded /\ track'.sequential
        /\ user.lockUntil # NullDate /\ now >= user.lockUntil) =>
       /\ user'.loginAttempts = 1
       /\ user'.lockUntil = NullDate]_vars

\* C27, as claimed: a failure recorded while the account is locked leaves
\* lockUntil as it was, whatever document the caller holds.
C27_AsClaimed ==
  [][(FailureRecorded /\ isLocked(user, now)) =>
       user'.lockUntil = user.lockUntil]_vars

\* C28, as claimed: a success recorded (on a freshly loaded document) while
\* the account is locked changes neither lockUntil nor loginAttempts.
C28_AsClaimed ==
  [][(SuccessRecorded /\ track'.sequential /\ isLocked(user, now)) =>
       user' = user]_vars

\* The request in gate carried a token that verifies: its Authorization header
\* has a second word, a token signed with the secret and not yet expired when
\* the request came.
CarriesValidToken ==
  /\ Len(gate.header) = 2
  /\ gate.header[2] \in Tokens
  /\ gate.header[2].sig = "secret"
  /\ gate.at < gate.header[2].exp

\* C19: authenticateToken calls next (once, with req.user set from the token
\* and no response sent) exactly when the header carries a token that
\* verifies; a request without a token is answered 401, one with a token that
\* is forged or expired 403, and next is not called for either.
C19_OnlyVerifiedPass ==
  gate.status # 0 \/ gate.nextCalls # 0 =>
    /\ gate.nextCalls = 1 <=> CarriesValidToken
    /\ gate.nextCalls \in {0, 1}
    /\ gate.nextCalls = 1 => gate.status = 0 /\ gate.user = gate.header[2].sub
    /\ gate.nextCalls = 0 =>
         /\ gate.user = Undefined
         /\ gate.status = IF Len(gate.header) < 2 \/ gate.header[2] \notin Tokens
                           THEN 401 ELSE 403

C19_Witness ==
  /\ gate.nextCalls = 1
  /\ CarriesValidToken
  /\ gate.at > 0
  /\ gate.user = "u1"

====
